---- MODULE Spec2Model ----
(***************************************************************************)
(* Model of the Media Shuttle upload path of MayoDownload:                 *)
(*   MayoUploaderService.upload      (src/Tin/mayo-uploader.service.ts)    *)
(*   MediaShuttleService             (src/Tin/media-shuttle.service.ts)    *)
(*                                                                         *)
(* Both services are async: code between two awaits runs as one atomic     *)
(* step, and every await is a suspension point.  Each action below is the  *)
(* continuation that runs when one awaited operation settles, up to the    *)
(* next await.  What the browser, the portal page and the file system      *)
(* answer is chosen with \E.                                               *)
(*                                                                         *)
(* Texts are sequences of tokens: a file name is its stem followed by its  *)
(* suffixes, a message is its fixed prefix followed by what it embeds.     *)
(***************************************************************************)
EXTENDS Integers, Sequences, FiniteSets, TLC

VARIABLES
  config,        \* what ConfigService.get('mediaShuttle') returns
  fsFiles,       \* the paths that exist on the file system
  browser,       \* MediaShuttleService.browser  (NULL or a browser handle)
  context,       \* MediaShuttleService.context  (NULL or a context handle)
  liveBrowsers,  \* browser processes launched and not closed
  liveContexts,  \* browsing contexts created and not closed
  up,            \* per call: the frame of MayoUploaderService.upload
  att            \* per call: the frame of MediaShuttleService.uploadToMediaShuttle

vars == <<config, fsFiles, browser, context, liveBrowsers, liveContexts, up, att>>

----------------------------------------------------------------------------
(* Bounds *)

\* longest input file list handed to upload
MaxFiles == 2

\* status polls of waitForFunction before its timeout elapses
MaxPolls == 2

\* call frames of the model; handle k is the browser/context opened by call k
Calls == {1, 2}

\* the calls that run under Spec (one invocation at a time)
SeqCalls == {1}

NULL == 0

----------------------------------------------------------------------------
(* Sequences *)

Range(s) == {s[i] : i \in 1..Len(s)}

Includes(text, token) == \E i \in 1..Len(text) : text[i] = token

EndsWith(text, token) == Len(text) > 0 /\ text[Len(text)] = token

\* String.prototype.toLowerCase on the tokens the portal texts are made of
LowerToken(t) ==
  CASE t = "Completed" -> "completed"
    [] t = "SUCCESS"   -> "success"
    [] t = "Finished"  -> "finished"
    [] t = "Error"     -> "error"
    [] t = "Transfer"  -> "transfer"
    [] t = "Uploading" -> "uploading"
    [] t = "Upload"    -> "upload"
    [] OTHER           -> t

ToLowerCase(text) == [i \in 1..Len(text) |-> LowerToken(text[i])]

----------------------------------------------------------------------------
(* Errors: a thrown value is an Error with a message, or some other value *)

Err(msg) == [isError |-> TRUE, message |-> msg]

\* the value of a catch variable while nothing was caught
NothingCaught == [isError |-> FALSE, message |-> <<>>]

\* `error instanceof Error ? error.message : 'Unknown error'`
ErrorMessageOf(error) == IF error.isError THEN error.message ELSE <<"Unknown error">>

\* what a Playwright call rejects with: always an Error
PlaywrightErrors == {Err(<<"Timeout exceeded">>)}

\* what fs.writeFileSync throws
FsWriteError == Err(<<"ENOSPC: no space left on device">>)

NoMsg == <<>>

----------------------------------------------------------------------------
(* Input files and staged paths *)

ReportSuffix == "_Report.docx"

TmpDir == "tmp"

FileUniverse ==
  { [fileName |-> <<"a", "_Report.docx">>, hasData |-> TRUE],
    [fileName |-> <<"a", "_Report.docx">>, hasData |-> FALSE],
    [fileName |-> <<"b", "_Report.docx">>, hasData |-> TRUE],
    [fileName |-> <<"notes", ".txt">>, hasData |-> TRUE],
    [fileName |-> <<"c", "_Report.docx", ".bak">>, hasData |-> FALSE] }

FileLists == UNION {[1..n -> FileUniverse] : n \in 0..MaxFiles}

IncludesReportSuffix(file) == Includes(file.fileName, ReportSuffix)

\* faulty variant: the first filter tests `includes`
IsReportFile_Includes(file) == IncludesReportSuffix(file)

\* file.fileName.endsWith('_Report.docx')
IsReportFile(file) == EndsWith(file.fileName, ReportSuffix)

\* faulty variant: the second filter tests `includes` where the first tests `endsWith`
IsSkippedFile_Includes(file) == ~IncludesReportSuffix(file)

\* !file.fileName.endsWith('_Report.docx')
IsSkippedFile(file) == ~EndsWith(file.fileName, ReportSuffix)

ReportFiles(files) == SelectSeq(files, IsReportFile)

SkippedFiles(files) == SelectSeq(files, IsSkippedFile)

\* path.join(os.tmpdir(), file.fileName)
TempPath(fileName) == <<TmpDir>> \o fileName

\* path.basename(filePath)
Basename(path) == Tail(path)

\* a file that is on disk before any call, and a path that never exists
ExistingPath == <<"data", "old", "_Report.docx">>
MissingPath == <<"data", "gone", "_Report.docx">>

DirectPathLists == {<<ExistingPath>>, <<MissingPath>>, <<ExistingPath, MissingPath>>}

----------------------------------------------------------------------------
(* Per-file results of upload *)

SkippedResult(file) ==
  [fileName |-> file.fileName, success |-> TRUE, skipped |-> TRUE, errorMessage |-> NoMsg]

UploadedResult(file) ==
  [fileName |-> file.fileName, success |-> TRUE, skipped |-> FALSE, errorMessage |-> NoMsg]

FailedResult(file, msg) ==
  [fileName |-> file.fileName, success |-> FALSE, skipped |-> FALSE, errorMessage |-> msg]

SkippedResults(files) ==
  LET sk == SkippedFiles(files) IN [i \in 1..Len(sk) |-> SkippedResult(sk[i])]

FailedResults(files, msg) ==
  LET rf == ReportFiles(files) IN [i \in 1..Len(rf) |-> FailedResult(rf[i], msg)]

\* faulty variant: the message of the attempt is dropped for the generic one
BatchErrorMessage_Generic(uploadResult) == <<"Batch upload failed">>

\* `uploadResult.error || 'Batch upload failed'`
BatchErrorMessage(uploadResult) ==
  IF uploadResult.error = NoMsg THEN <<"Batch upload failed">> ELSE uploadResult.error

\* the branch on uploadResult.success
BatchResults(files, uploadResult) ==
  LET rf == ReportFiles(files) IN
  IF uploadResult.success
  THEN [i \in 1..Len(rf) |-> UploadedResult(rf[i])]
  ELSE FailedResults(files, BatchErrorMessage(uploadResult))

----------------------------------------------------------------------------
(* Staging loop and cleanup loop of upload *)

MissingDataError(file) == Err(<<"File data is missing for ">> \o file.fileName)

\* faulty variant: a file without data is passed over instead of failing the batch
RECURSIVE StageFrom_SkipMissing(_, _, _, _)
StageFrom_SkipMissing(rf, i, failAt, paths) ==
  IF i > Len(rf)
  THEN [tempFilePaths |-> paths, threw |-> FALSE, error |-> NothingCaught, at |-> 0]
  ELSE IF ~rf[i].hasData
  THEN StageFrom_SkipMissing(rf, i + 1, failAt, paths)
  ELSE IF i = failAt
  THEN [tempFilePaths |-> paths, threw |-> TRUE, error |-> FsWriteError, at |-> i]
  ELSE StageFrom_SkipMissing(rf, i + 1, failAt, Append(paths, TempPath(rf[i].fileName)))

\* The for loop over reportFiles from index i on; writeFileSync throws at
\* index failAt (0: never).  Yields the paths pushed and what was thrown.
RECURSIVE StageFrom(_, _, _, _)
StageFrom(rf, i, failAt, paths) ==
  IF i > Len(rf)
  THEN [tempFilePaths |-> paths, threw |-> FALSE, error |-> NothingCaught, at |-> 0]
  ELSE IF ~rf[i].hasData
  THEN [tempFilePaths |-> paths, threw |-> TRUE, error |-> MissingDataError(rf[i]), at |-> 0]
  ELSE IF i = failAt
  THEN [tempFilePaths |-> paths, threw |-> TRUE, error |-> FsWriteError, at |-> i]
  ELSE StageFrom(rf, i + 1, failAt, Append(paths, TempPath(rf[i].fileName)))

\* The finally loop from index i on; unlinkSync throws at the indices in
\* `failing`.  Yields the file system and the paths warned about.
RECURSIVE CleanupFrom(_, _, _, _, _)
CleanupFrom(paths, i, failing, fs, warned) ==
  IF i > Len(paths)
  THEN [fs |-> fs, warned |-> warned]
  ELSE IF paths[i] \in fs
  THEN IF i \in failing
       THEN CleanupFrom(paths, i + 1, failing, fs, warned \cup {paths[i]})
       ELSE CleanupFrom(paths, i + 1, failing, fs \ {paths[i]}, warned)
  ELSE CleanupFrom(paths, i + 1, failing, fs, warned)

\* faulty variant: the finally block deletes nothing
CleanupTempFiles_Skipped(paths, failing, fs) == [fs |-> fs, warned |-> {}]

\* the finally block of upload
CleanupTempFiles(paths, failing, fs) == CleanupFrom(paths, 1, failing, fs, {})

----------------------------------------------------------------------------
(* The portal page, as the completion monitor reads it *)

\* document.querySelector('#topText'): absent, or an element with a text
NoTopText == [present |-> FALSE, text |-> <<>>]

PageStatuses ==
  { NoTopText,
    [present |-> TRUE, text |-> <<"Transfer", "Completed">>],
    [present |-> TRUE, text |-> <<"Upload", "SUCCESS">>],
    [present |-> TRUE, text |-> <<"finished">>],
    [present |-> TRUE, text |-> <<"Uploading">>] }

\* the page function's test on the lowered #topText content
HasTerminalMarker(text) ==
  \/ Includes(ToLowerCase(text), "completed")
  \/ Includes(ToLowerCase(text), "success")
  \/ Includes(ToLowerCase(text), "finished")

\* the page function of monitorTransferProgress, up to its log call
IsCompleted(status) == status.present /\ HasTerminalMarker(status.text)

\* `.first().textContent().catch(() => null)`: null, or the element's text
NullText == [isNull |-> TRUE, text |-> <<>>]

ErrorTexts ==
  { NullText,
    [isNull |-> FALSE, text |-> <<>>],
    [isNull |-> FALSE, text |-> <<"Uploading">>],
    [isNull |-> FALSE, text |-> <<"Upload", "Error">>] }

\* faulty variant: the test is made on the text as it is, without toLowerCase
MentionsError_CaseSensitive(errorText) ==
  /\ ~errorText.isNull
  /\ errorText.text # <<>>
  /\ Includes(errorText.text, "error")

\* `errorMessage && errorMessage.toLowerCase().includes('error')`
MentionsError(errorText) ==
  /\ ~errorText.isNull
  /\ errorText.text # <<>>
  /\ Includes(ToLowerCase(errorText.text), "error")

TransferFailedError(errorText) == Err(<<"Transfer failed: ">> \o errorText.text)

\* page.url() after the login form was submitted
Urls == {<<"portal", "login">>, <<"portal", "signin">>, <<"portal", "send">>}

\* faulty variant: only 'login' is looked for in the address
StillOnLoginPage_LoginOnly(url) == Includes(url, "login")

\* `currentUrl.includes('login') || currentUrl.includes('signin')`
StillOnLoginPage(url) == Includes(url, "login") \/ Includes(url, "signin")

\* the awaited operations of login, in order
LoginAwaits ==
  << "waitForLoadState", "fillEmail", "clickNext", "waitForPassword",
     "fillPassword", "clickSubmit", "waitForNetworkIdle" >>

\* the catch blocks of login and performUpload wrap what they caught
LoginError(error) == Err(<<"Login failed: ">> \o ErrorMessageOf(error))

UploadError(error) == Err(<<"Upload failed: ">> \o ErrorMessageOf(error))

StillOnLoginError == Err(<<"Login failed - still on login page">>)

\* performUpload: where a visibility probe leads, and what follows an interaction
ProbePcs == {"visNoSoftware", "visRecipient", "visAddFiles", "visSend"}

InteractPcs ==
  {"clickNoSoftware", "fillRecipient", "clickAddFiles", "awaitFileChooser",
   "setFiles", "clickSend"}

IfVisible(pc) ==
  CASE pc = "visNoSoftware" -> "clickNoSoftware"
    [] pc = "visRecipient"  -> "fillRecipient"
    [] pc = "visAddFiles"   -> "clickAddFiles"
    [] pc = "visSend"       -> "clickSend"

\* faulty variant: the send control is probed outside the add-files branch
IfNotVisible_SendOutsideBranch(pc) ==
  CASE pc = "visNoSoftware" -> "visRecipient"
    [] pc = "visRecipient"  -> "visAddFiles"
    [] pc = "visAddFiles"   -> "visSend"
    [] pc = "visSend"       -> "waitProgress"

IfNotVisible(pc) ==
  CASE pc = "visNoSoftware" -> "visRecipient"
    [] pc = "visRecipient"  -> "visAddFiles"
    [] pc = "visAddFiles"   -> "waitProgress"
    [] pc = "visSend"       -> "waitProgress"

AfterInteraction(pc) ==
  CASE pc = "clickNoSoftware"  -> "visRecipient"
    [] pc = "fillRecipient"    -> "visAddFiles"
    [] pc = "clickAddFiles"    -> "awaitFileChooser"
    [] pc = "awaitFileChooser" -> "setFiles"
    [] pc = "setFiles"         -> "visSend"
    [] pc = "clickSend"        -> "waitProgress"

----------------------------------------------------------------------------
(* Frames *)

NoResult == [success |-> FALSE, message |-> NoMsg, uploadedFiles |-> <<>>, error |-> NoMsg]

IdleUp ==
  [ pc            |-> "idle",   \* idle, awaitAttempt, returned, thrown
    files         |-> <<>>,     \* the argument
    tempFilePaths |-> <<>>,
    results       |-> <<>>,
    thrown        |-> NoMsg,    \* message of the error upload threw
    written       |-> {},       \* paths writeFileSync created ("Created temp file")
    warned        |-> {},       \* paths whose unlink failed ("Failed to cleanup")
    attempts      |-> 0 ]       \* invocations of uploadToMediaShuttle

\* no control has been probed yet
NoProbe == [control |-> "none", visible |-> FALSE]

IdleAtt ==
  [ pc           |-> "idle",
    caller       |-> "none",    \* upload, direct, test
    filePaths    |-> <<>>,      \* the argument
    page         |-> FALSE,     \* the local `page` is non-null
    step         |-> 0,         \* index of the pending await of login
    url          |-> <<>>,      \* page.url() read after the last await of login
    probe        |-> NoProbe,   \* the last isVisible() answer of performUpload
    caught       |-> NothingCaught,
    chooserFiles |-> <<>>,      \* what fileChooser.setFiles was given
    sent         |-> FALSE,     \* the send control was clicked
    progress     |-> FALSE,     \* #transferProgressDetails appeared
    polls        |-> 0,         \* polls of the page function so far
    pollThrew    |-> FALSE,     \* the page function threw at its log call
    status       |-> NoTopText, \* #topText when the last wait of the monitor settled
    errorText    |-> NullText,  \* what the fallback read from the error element
    fallback     |-> FALSE,     \* the catch block of waitForUploadCompletion ran
    completion   |-> "pending", \* pending, detected, assumed, failed
    result       |-> NoResult,
    built        |-> 0,         \* result objects built
    captures     |-> 0,         \* invocations of captureErrorScreenshot
    cleanups     |-> 0,         \* invocations of cleanup
    closing      |-> NULL,      \* the handle whose close() is awaited
    returned     |-> 0,         \* times the call returned to its caller
    trace        |-> <<>> ]     \* the calls made, in order

Log(a, event) == [a EXCEPT !.trace = Append(@, event)]

----------------------------------------------------------------------------
(* uploadToMediaShuttle: results, catch and finally *)

RECURSIVE JoinPaths(_)
JoinPaths(paths) == IF paths = <<>> THEN <<>> ELSE Head(paths) \o JoinPaths(Tail(paths))

FilesNotFoundError(paths) == Err(<<"Files not found: ">> \o JoinPaths(paths))

\* filePaths.every((filePath) => fs.existsSync(filePath))
AllExist(paths, fs) == \A i \in 1..Len(paths) : paths[i] \in fs

SucceededResult(paths) ==
  [ success       |-> TRUE,
    message       |-> <<"File uploaded to Media Shuttle successfully">>,
    uploadedFiles |-> [i \in 1..Len(paths) |-> Basename(paths[i])],
    error         |-> NoMsg ]

\* faulty variant: the failed result carries no error message
FailedAttemptResult_NoError(error) ==
  [ success       |-> FALSE,
    message       |-> <<"Failed to upload to Media Shuttle">>,
    uploadedFiles |-> <<>>,
    error         |-> NoMsg ]

FailedAttemptResult(error) ==
  [ success       |-> FALSE,
    message       |-> <<"Failed to upload to Media Shuttle">>,
    uploadedFiles |-> <<>>,
    error         |-> ErrorMessageOf(error) ]

\* cleanup() up to its first await: the handle it closes first, if any
CleanupPc == IF context # NULL THEN "closeContext"
             ELSE IF browser # NULL THEN "closeBrowser"
             ELSE "cleanupEnd"

\* the finally block: cleanup is called, and runs until it awaits a close
BeginCleanup(a) ==
  [Log(a, "cleanup") EXCEPT
     !.cleanups = @ + 1,
     !.pc = CleanupPc,
     !.closing = IF context # NULL THEN context ELSE browser]

\* `return {success: true, ...}` of the try block, then the finally block
ReturnSuccess(a) ==
  BeginCleanup([Log(a, "result") EXCEPT
     !.result = SucceededResult(a.filePaths), !.built = @ + 1])

\* faulty variant: cleanup is called at the end of the try block only, not in a finally
ReturnFailure_NoCleanup(a) ==
  [Log(a, "result") EXCEPT
     !.result = FailedAttemptResult(a.caught), !.built = @ + 1, !.pc = "cleanupEnd"]

\* `return {success: false, ...}` of the catch block, then the finally block
ReturnFailure(a) ==
  BeginCleanup([Log(a, "result") EXCEPT
     !.result = FailedAttemptResult(a.caught), !.built = @ + 1])

\* faulty variant: the catch block never captures
ShouldCapture_Never(a) == FALSE

\* `if (page)` of the catch block
ShouldCapture(a) == a.page

\* what testConnection returns, as a result whose success is the boolean
TestResult(ok) == [NoResult EXCEPT !.success = ok]

\* `return true` of the try block or `return false` of the catch block of
\* testConnection, then its finally block
TestReturn(a, ok) ==
  BeginCleanup([Log(a, "result") EXCEPT !.result = TestResult(ok), !.built = @ + 1])

\* the catch block of uploadToMediaShuttle, up to its first await; that of
\* testConnection logs and returns false
EnterCatch(a, error) ==
  LET b == [a EXCEPT !.caught = error] IN
  IF b.caller = "test"
  THEN TestReturn(b, FALSE)
  ELSE IF ShouldCapture(b)
  THEN [Log(b, "captureErrorScreenshot") EXCEPT !.pc = "capture", !.captures = @ + 1]
  ELSE ReturnFailure(b)

\* uploadToMediaShuttle from its call to its first await
AttemptStart(caller, paths, fs) ==
  LET a == [Log(IdleAtt, "existsSync") EXCEPT !.caller = caller, !.filePaths = paths] IN
  IF AllExist(paths, fs)
  THEN [Log(a, "initializeBrowser") EXCEPT !.pc = "launch"]
  ELSE EnterCatch(a, FilesNotFoundError(paths))

SetAtt(c, a) == att' = [att EXCEPT ![c] = a]

Shared == <<browser, context, liveBrowsers, liveContexts>>

----------------------------------------------------------------------------
(* MayoUploaderService.upload *)

\* the catch block, the finally block and the rest of upload
FinishUpload(u, reported, failing, fs) ==
  LET cl == CleanupTempFiles(u.tempFilePaths, failing, fs) IN
  [ frame |-> [u EXCEPT !.pc = "returned",
                        !.results = reported \o SkippedResults(u.files),
                        !.warned = cl.warned],
    fs    |-> cl.fs ]

\* upload from its call to the await of uploadToMediaShuttle, or to its end
UploadBegin(c) ==
  /\ up[c].pc = "idle" /\ att[c].pc = "idle"
  /\ \E files \in FileLists :
       LET u == [IdleUp EXCEPT !.files = files] IN
       IF ReportFiles(files) = <<>>
       THEN /\ up' = [up EXCEPT ![c] = [u EXCEPT !.pc = "returned",
                                                 !.results = SkippedResults(files)]]
            /\ UNCHANGED <<fsFiles, att>>
       ELSE IF ~config.defined
       THEN \* getMediaShuttleConfig throws, outside the try block
            /\ up' = [up EXCEPT ![c] = [u EXCEPT !.pc = "thrown",
                          !.thrown = <<"Media Shuttle configuration not found">>]]
            /\ UNCHANGED <<fsFiles, att>>
       ELSE \E failAt \in 0..Len(ReportFiles(files)), partial \in BOOLEAN :
              LET st == StageFrom(ReportFiles(files), 1, failAt, <<>>)
                  staged == Range(st.tempFilePaths)
                  torn == IF st.at # 0 /\ partial
                          THEN {TempPath(ReportFiles(files)[st.at].fileName)} ELSE {}
                  fs == fsFiles \cup staged \cup torn
                  v == [u EXCEPT !.tempFilePaths = st.tempFilePaths, !.written = staged]
              IN IF st.threw
                 THEN \E failing \in SUBSET (1..Len(st.tempFilePaths)) :
                        LET fin == FinishUpload(v,
                                     FailedResults(files, ErrorMessageOf(st.error)),
                                     failing, fs)
                        IN /\ up' = [up EXCEPT ![c] = fin.frame]
                           /\ fsFiles' = fin.fs
                           /\ UNCHANGED att
                 ELSE /\ up' = [up EXCEPT ![c] = [v EXCEPT !.pc = "awaitAttempt",
                                                           !.attempts = @ + 1]]
                      /\ fsFiles' = fs
                      /\ SetAtt(c, AttemptStart("upload", st.tempFilePaths, fs))
  /\ UNCHANGED <<config, Shared>>

\* faulty variant: a failed attempt is made again, up to maxRetries attempts
UploadFinish_Retries(c) ==
  /\ up[c].pc = "awaitAttempt" /\ att[c].pc = "done"
  /\ IF ~att[c].result.success /\ up[c].attempts < config.maxRetries
     THEN /\ up' = [up EXCEPT ![c].attempts = @ + 1]
          /\ SetAtt(c, AttemptStart("upload", up[c].tempFilePaths, fsFiles))
          /\ UNCHANGED fsFiles
     ELSE /\ \E failing \in SUBSET (1..Len(up[c].tempFilePaths)) :
               LET fin == FinishUpload(up[c], BatchResults(up[c].files, att[c].result),
                                       failing, fsFiles)
               IN /\ up' = [up EXCEPT ![c] = fin.frame]
                  /\ fsFiles' = fin.fs
          /\ UNCHANGED att
  /\ UNCHANGED <<config, Shared>>

\* upload from the return of uploadToMediaShuttle to its own return
UploadFinish(c) ==
  /\ up[c].pc = "awaitAttempt" /\ att[c].pc = "done"
  /\ \E failing \in SUBSET (1..Len(up[c].tempFilePaths)) :
       LET fin == FinishUpload(up[c], BatchResults(up[c].files, att[c].result),
                               failing, fsFiles)
       IN /\ up' = [up EXCEPT ![c] = fin.frame]
          /\ fsFiles' = fin.fs
  /\ UNCHANGED <<config, Shared, att>>

\* uploadToMediaShuttle called by another client of the exported service
DirectBegin(c) ==
  /\ up[c].pc = "idle" /\ att[c].pc = "idle"
  /\ \E paths \in DirectPathLists : SetAtt(c, AttemptStart("direct", paths, fsFiles))
  /\ UNCHANGED <<config, fsFiles, Shared, up>>

\* uploadToMediaShuttle called with a path that does not exist
DirectBeginMissing(c) ==
  /\ up[c].pc = "idle" /\ att[c].pc = "idle"
  /\ \E paths \in DirectPathLists :
       /\ ~AllExist(paths, fsFiles)
       /\ SetAtt(c, AttemptStart("direct", paths, fsFiles))
  /\ UNCHANGED <<config, fsFiles, Shared, up>>

\* testConnection from its call to the first await of initializeBrowser
TestBegin(c) ==
  /\ up[c].pc = "idle" /\ att[c].pc = "idle"
  /\ SetAtt(c, [Log(IdleAtt, "initializeBrowser") EXCEPT !.caller = "test", !.pc = "launch"])
  /\ UNCHANGED <<config, fsFiles, Shared, up>>

----------------------------------------------------------------------------
(* initializeBrowser *)

\* chromium.launch settles
Launch(c) ==
  /\ att[c].pc = "launch"
  /\ \/ /\ browser' = c
        /\ liveBrowsers' = liveBrowsers \cup {c}
        /\ SetAtt(c, [Log(att[c], "launch") EXCEPT !.pc = "newContext"])
        /\ UNCHANGED <<context, liveContexts>>
     \/ /\ \E e \in PlaywrightErrors : SetAtt(c, EnterCatch(att[c], e))
        /\ UNCHANGED Shared
  /\ UNCHANGED <<config, fsFiles, up>>

\* browser.newContext settles
NewContext(c) ==
  /\ att[c].pc = "newContext"
  /\ \/ /\ c \in liveBrowsers
        /\ context' = c
        /\ liveContexts' = liveContexts \cup {c}
        /\ SetAtt(c, [Log(att[c], "newContext") EXCEPT !.pc = "newPage"])
        /\ UNCHANGED <<browser, liveBrowsers>>
     \/ /\ \E e \in PlaywrightErrors : SetAtt(c, EnterCatch(att[c], e))
        /\ UNCHANGED Shared
  /\ UNCHANGED <<config, fsFiles, up>>

\* context.newPage settles; then setDefaultTimeout and the call of goto
NewPage(c) ==
  /\ att[c].pc = "newPage"
  /\ \/ /\ c \in liveContexts
        /\ SetAtt(c, [Log(att[c], "newPage") EXCEPT !.pc = "goto"])
     \/ \E e \in PlaywrightErrors : SetAtt(c, EnterCatch(att[c], e))
  /\ UNCHANGED <<config, fsFiles, Shared, up>>

\* page.goto settles; initializeBrowser returns the page and login is called
Goto(c) ==
  /\ att[c].pc = "goto"
  /\ \/ /\ c \in liveContexts
        /\ SetAtt(c, [Log(Log(att[c], "goto"), "login") EXCEPT
                        !.page = TRUE, !.pc = "login", !.step = 1])
     \/ \E e \in PlaywrightErrors : SetAtt(c, EnterCatch(att[c], e))
  /\ UNCHANGED <<config, fsFiles, Shared, up>>

----------------------------------------------------------------------------
(* login *)

\* performUpload is called and awaits its first visibility probe
StartPerformUpload(a) == [Log(a, "performUpload") EXCEPT !.pc = "visNoSoftware"]

\* faulty variant: login logs what it caught and returns, so the attempt goes on
LoginStep_SwallowsError(c) ==
  /\ att[c].pc = "login"
  /\ \/ /\ c \in liveContexts
        /\ LET a == Log(att[c], LoginAwaits[att[c].step]) IN
           IF att[c].step < Len(LoginAwaits)
           THEN SetAtt(c, [a EXCEPT !.step = @ + 1])
           ELSE \E url \in Urls : SetAtt(c, StartPerformUpload([a EXCEPT !.url = url]))
     \/ SetAtt(c, StartPerformUpload(att[c]))
  /\ UNCHANGED <<config, fsFiles, Shared, up>>

\* one awaited operation of login settles; after the last one the url is tested
LoginStep(c) ==
  /\ att[c].pc = "login"
  /\ \/ /\ c \in liveContexts
        /\ LET a == Log(att[c], LoginAwaits[att[c].step]) IN
           IF att[c].step < Len(LoginAwaits)
           THEN SetAtt(c, [a EXCEPT !.step = @ + 1])
           ELSE \E url \in Urls :
                  LET b == [a EXCEPT !.url = url] IN
                  IF StillOnLoginPage(url)
                  THEN SetAtt(c, EnterCatch(b, LoginError(StillOnLoginError)))
                  ELSE IF b.caller = "test"
                  THEN SetAtt(c, TestReturn(b, TRUE))
                  ELSE SetAtt(c, StartPerformUpload(b))
     \/ \E e \in PlaywrightErrors : SetAtt(c, EnterCatch(att[c], LoginError(e)))
  /\ UNCHANGED <<config, fsFiles, Shared, up>>

----------------------------------------------------------------------------
(* performUpload *)

\* waitForUploadCompletion is called and awaits the progress-detail element
EnterPc(a, pc) ==
  IF pc = "waitProgress"
  THEN [Log(a, "waitForUploadCompletion") EXCEPT !.pc = pc]
  ELSE [a EXCEPT !.pc = pc]

\* `await control.isVisible().catch(() => false)` settles
Probe(c) ==
  /\ att[c].pc \in ProbePcs
  /\ \E visible \in BOOLEAN :
       LET answer == visible /\ c \in liveContexts
           a == [att[c] EXCEPT !.probe = [control |-> att[c].pc, visible |-> answer]]
       IN SetAtt(c, EnterPc(a, IF answer THEN IfVisible(a.pc) ELSE IfNotVisible(a.pc)))
  /\ UNCHANGED <<config, fsFiles, Shared, up>>

\* an awaited click, fill, file chooser event or setFiles settles
Interact(c) ==
  /\ att[c].pc \in InteractPcs
  /\ \/ /\ c \in liveContexts
        /\ LET a == att[c]
               b == CASE a.pc = "setFiles"  -> [a EXCEPT !.chooserFiles = a.filePaths]
                      [] a.pc = "clickSend" -> [a EXCEPT !.sent = TRUE]
                      [] OTHER              -> a
           IN SetAtt(c, EnterPc(b, AfterInteraction(a.pc)))
     \/ \E e \in PlaywrightErrors : SetAtt(c, EnterCatch(att[c], UploadError(e)))
  /\ UNCHANGED <<config, fsFiles, Shared, up>>

----------------------------------------------------------------------------
(* waitForUploadCompletion and monitorTransferProgress *)

\* the catch block of waitForUploadCompletion is entered
EnterFallback(a) == [Log(a, "fallback") EXCEPT !.pc = "fallback", !.fallback = TRUE]

\* waitForUploadCompletion returns normally, and so do performUpload and the try block
Completed(a, how) == ReturnSuccess([a EXCEPT !.completion = how])

\* waitForSelector('#transferProgressDetails') settles
WaitProgress(c) ==
  /\ att[c].pc = "waitProgress"
  /\ \/ /\ c \in liveContexts
        /\ SetAtt(c, [Log(att[c], "monitorTransferProgress") EXCEPT
                        !.progress = TRUE, !.pc = "poll"])
     \/ \E st \in PageStatuses : SetAtt(c, EnterFallback([att[c] EXCEPT !.status = st]))
  /\ UNCHANGED <<config, fsFiles, Shared, up>>

\* One evaluation of the page function.  Its log call reads this.logger of
\* the service inside the page, which the page may or may not resolve: the
\* evaluation returns true, or throws and waitForFunction rejects.
PollTick(c) ==
  /\ att[c].pc = "poll"
  /\ c \in liveContexts
  /\ \E st \in PageStatuses :
       LET a == [att[c] EXCEPT !.status = st, !.polls = @ + 1] IN
       IF IsCompleted(st)
       THEN \E logged \in BOOLEAN :
              IF logged THEN SetAtt(c, Completed(a, "detected"))
                        ELSE SetAtt(c, EnterFallback([a EXCEPT !.pollThrew = TRUE]))
       ELSE /\ att[c].polls < MaxPolls
            /\ SetAtt(c, a)
  /\ UNCHANGED <<config, fsFiles, Shared, up>>

\* faulty variant: only the wait for the progress-detail element is guarded by the
\* try block; the timeout of the poll propagates to performUpload
PollTimeout_Propagates(c) ==
  /\ att[c].pc = "poll"
  /\ att[c].polls = MaxPolls
  /\ \E e \in PlaywrightErrors : SetAtt(c, EnterCatch(att[c], UploadError(e)))
  /\ UNCHANGED <<config, fsFiles, Shared, up>>

\* waitForFunction times out
PollTimeout(c) ==
  /\ att[c].pc = "poll"
  /\ att[c].polls = MaxPolls
  /\ SetAtt(c, EnterFallback(att[c]))
  /\ UNCHANGED <<config, fsFiles, Shared, up>>

\* the textContent of the first error element settles
Fallback(c) ==
  /\ att[c].pc = "fallback"
  /\ \E et \in ErrorTexts :
       LET a == [att[c] EXCEPT !.errorText = et] IN
       IF MentionsError(et)
       THEN SetAtt(c, EnterCatch([a EXCEPT !.completion = "failed"],
                                 UploadError(TransferFailedError(et))))
       ELSE SetAtt(c, Completed(a, "assumed"))
  /\ UNCHANGED <<config, fsFiles, Shared, up>>

----------------------------------------------------------------------------
(* captureErrorScreenshot and cleanup *)

\* faulty variant: captureErrorScreenshot has no try block, so a failed
\* screenshot replaces the error the catch block reports
Capture_ScreenshotErrorReported(c) ==
  /\ att[c].pc = "capture"
  /\ \E saved \in BOOLEAN :
       IF saved
       THEN SetAtt(c, ReturnFailure(Log(att[c], "saved")))
       ELSE SetAtt(c, ReturnFailure([Log(att[c], "notSaved") EXCEPT
                        !.caught = Err(<<"page.screenshot: Target closed">>)]))
  /\ UNCHANGED <<config, fsFiles, Shared, up>>

\* the screenshot settles, saved or not; the failed result is built
Capture(c) ==
  /\ att[c].pc = "capture"
  /\ \E saved \in BOOLEAN :
       SetAtt(c, ReturnFailure(Log(att[c], IF saved THEN "saved" ELSE "notSaved")))
  /\ UNCHANGED <<config, fsFiles, Shared, up>>

\* context.close() settles
CloseContext(c) ==
  /\ att[c].pc = "closeContext"
  /\ \/ /\ liveContexts' = liveContexts \ {att[c].closing}
        /\ context' = NULL
        /\ SetAtt(c, [Log(att[c], "contextClosed") EXCEPT
                        !.pc = IF browser # NULL THEN "closeBrowser" ELSE "cleanupEnd",
                        !.closing = browser])
        /\ UNCHANGED <<browser, liveBrowsers>>
     \/ /\ SetAtt(c, [Log(att[c], "closeFailed") EXCEPT !.pc = "cleanupEnd"])
        /\ UNCHANGED Shared
  /\ UNCHANGED <<config, fsFiles, up>>

\* browser.close() settles
CloseBrowser(c) ==
  /\ att[c].pc = "closeBrowser"
  /\ \/ /\ liveBrowsers' = liveBrowsers \ {att[c].closing}
        /\ liveContexts' = liveContexts \ {att[c].closing}
        /\ browser' = NULL
        /\ SetAtt(c, [Log(att[c], "browserClosed") EXCEPT !.pc = "cleanupEnd"])
        /\ UNCHANGED context
     \/ /\ SetAtt(c, [Log(att[c], "closeFailed") EXCEPT !.pc = "cleanupEnd"])
        /\ UNCHANGED Shared
  /\ UNCHANGED <<config, fsFiles, up>>

\* cleanup has returned: uploadToMediaShuttle returns its result
AttemptReturn(c) ==
  /\ att[c].pc = "cleanupEnd"
  /\ SetAtt(c, [Log(att[c], "return") EXCEPT !.pc = "done", !.returned = @ + 1])
  /\ UNCHANGED <<config, fsFiles, Shared, up>>

----------------------------------------------------------------------------
(* Specification *)

\* registerAs('mediaShuttle'): maxRetries defaults to 3
DefaultMaxRetries == 3

\* ConfigService.get('mediaShuttle'): undefined, or the registered configuration
Configs ==
  { [defined |-> FALSE, maxRetries |-> 0],
    [defined |-> TRUE, maxRetries |-> DefaultMaxRetries] }

Init ==
  /\ config \in Configs
  /\ fsFiles = {ExistingPath}
  /\ browser = NULL
  /\ context = NULL
  /\ liveBrowsers = {}
  /\ liveContexts = {}
  /\ up = [c \in Calls |-> IdleUp]
  /\ att = [c \in Calls |-> IdleAtt]

Step(c) ==
  \/ UploadBegin(c)
  \/ UploadFinish(c)
  \/ DirectBegin(c)
  \/ Launch(c)
  \/ NewContext(c)
  \/ NewPage(c)
  \/ Goto(c)
  \/ LoginStep(c)
  \/ Probe(c)
  \/ Interact(c)
  \/ WaitProgress(c)
  \/ PollTick(c)
  \/ PollTimeout(c)
  \/ Fallback(c)
  \/ Capture(c)
  \/ CloseContext(c)
  \/ CloseBrowser(c)
  \/ AttemptReturn(c)

Next == \E c \in SeqCalls : Step(c)

Spec == Init /\ [][Next]_vars

\* Two calls interleaved on the one service instance, at their awaits: each
\* is a testConnection, or an uploadToMediaShuttle that fails its pre-check.
ConcStep(c) ==
  \/ TestBegin(c)
  \/ DirectBeginMissing(c)
  \/ Launch(c)
  \/ NewContext(c)
  \/ NewPage(c)
  \/ Goto(c)
  \/ LoginStep(c)
  \/ CloseContext(c)
  \/ CloseBrowser(c)
  \/ AttemptReturn(c)

NextConc == \E c \in Calls : ConcStep(c)

SpecConc == Init /\ [][NextConc]_vars

----------------------------------------------------------------------------
(* Vocabulary of the properties *)

Eligible(file) == EndsWith(file.fileName, "_Report.docx")

HasEligible(files) == \E i \in 1..Len(files) : Eligible(files[i])

\* how many entries of a list of files or of results carry this name
Occurrences(list, name) == Cardinality({i \in 1..Len(list) : list[i].fileName = name})

NamesOf(list) == {list[i].fileName : i \in 1..Len(list)}

\* one result per input file: the same names, each as often as in the input
OneResultPerFile(results, files) ==
  /\ Len(results) = Len(files)
  /\ \A name \in NamesOf(results) \cup NamesOf(files) :
       Occurrences(results, name) = Occurrences(files, name)

ResultsFor(results, files, wanted) ==
  {i \in 1..Len(results) :
     \E j \in 1..Len(files) : files[j].fileName = results[i].fileName /\ wanted = Eligible(files[j])}

UploadEnded(c) == up[c].pc \in {"returned", "thrown"}

ConfigMissingMsg == <<"Media Shuttle configuration not found">>

----------------------------------------------------------------------------
(* C1 *)

\* C1 as stated: whenever an upload call has ended, whatever staging, the
\* configuration lookup and the portal attempt did, it has returned a list
\* holding exactly one result per input file.
C1_ResultPerFileAlways ==
  \A c \in Calls :
    UploadEnded(c) => up[c].pc = "returned" /\ OneResultPerFile(up[c].results, up[c].files)

\* C1: whatever staging and the portal attempt did, an upload call that finds
\* the configuration (or has no eligible file) returns a list holding exactly
\* one result per input file name, as often as the name occurs in the input;
\* a call with an eligible file and no configuration throws "Media Shuttle
\* configuration not found" before it stages anything, and returns no list.
C1_ResultPerFile ==
  \A c \in Calls :
    /\ up[c].pc = "returned" => OneResultPerFile(up[c].results, up[c].files)
    /\ up[c].pc = "thrown" <=>
         up[c].pc # "idle" /\ HasEligible(up[c].files) /\ ~config.defined
    /\ up[c].pc = "thrown" =>
         /\ up[c].thrown = ConfigMissingMsg
         /\ up[c].results = <<>>
         /\ up[c].written = {}
         /\ up[c].attempts = 0

\* an upload of two files of the same name has returned after a portal attempt
C1_Witness ==
  \E c \in Calls :
    /\ up[c].pc = "returned"
    /\ att[c].pc = "done"
    /\ Len(up[c].files) = 2
    /\ up[c].files[1].fileName = up[c].files[2].fileName

----------------------------------------------------------------------------
(* C2 *)

IsSkippedSuccess(r) == r.success /\ r.skipped /\ r.errorMessage = NoMsg

----------------------------------------------------------------------------
(* C3 *)

AttemptFailed(c) == att[c].caller = "upload" /\ att[c].built = 1 /\ ~att[c].result.success

\* C3: when the attempt made for an upload call failed at any step, the call
\* does not throw, and the list it returns gives every eligible file
\* success:false with one and the same non-empty error message, that of the
\* attempt, and every other file success:true, skipped:true.
C3_BatchFailureShared ==
  \A c \in Calls :
    AttemptFailed(c) =>
      /\ up[c].pc \in {"awaitAttempt", "returned"}
      /\ att[c].result.error # NoMsg
      /\ up[c].pc = "returned" =>
           /\ OneResultPerFile(up[c].results, up[c].files)
           /\ \A i \in ResultsFor(up[c].results, up[c].files, TRUE) :
                /\ ~up[c].results[i].success
                /\ ~up[c].results[i].skipped
                /\ up[c].results[i].errorMessage = att[c].result.error
           /\ \A i \in ResultsFor(up[c].results, up[c].files, FALSE) :
                IsSkippedSuccess(up[c].results[i])

\* an eligible file and a skipped one; the monitor failed the attempt
C3_Witness ==
  \E c \in Calls :
    /\ up[c].pc = "returned"
    /\ AttemptFailed(c)
    /\ att[c].completion = "failed"
    /\ Cardinality(ResultsFor(up[c].results, up[c].files, TRUE)) = 1
    /\ Cardinality(ResultsFor(up[c].results, up[c].files, FALSE)) = 1

----------------------------------------------------------------------------
(* C4 *)

AttemptSucceeded(c) == att[c].caller = "upload" /\ att[c].built = 1 /\ att[c].result.success

EligibleSucceeded(c) ==
  /\ OneResultPerFile(up[c].results, up[c].files)
  /\ \A i \in ResultsFor(up[c].results, up[c].files, TRUE) :
       /\ up[c].results[i].success
       /\ ~up[c].results[i].skipped
       /\ up[c].results[i].errorMessage = NoMsg

\* C4 as stated: after an upload whose portal attempt reported success, every
\* eligible file has success:true, not skipped, and no temp file the call
\* staged exists any more.
C4_StagedAlwaysDeleted ==
  \A c \in Calls :
    up[c].pc = "returned" /\ AttemptSucceeded(c) =>
      /\ EligibleSucceeded(c)
      /\ up[c].written \cap fsFiles = {}

\* C4: after an upload whose portal attempt reported success, every eligible
\* file has success:true, not skipped, and every temp file the call staged
\* has been deleted, except those whose deletion itself failed (which the
\* call logs and survives).
C4_StagedDeletedUnlessUnlinkFails ==
  \A c \in Calls :
    up[c].pc = "returned" /\ AttemptSucceeded(c) =>
      /\ EligibleSucceeded(c)
      /\ up[c].written # {}
      /\ up[c].written = Range(up[c].tempFilePaths)
      /\ up[c].written \cap fsFiles \subseteq up[c].warned
      /\ up[c].warned \subseteq up[c].written

\* two different files were staged, transferred and deleted
C4_Witness ==
  \E c \in Calls :
    /\ up[c].pc = "returned" /\ AttemptSucceeded(c)
    /\ Cardinality(up[c].written) = 2
    /\ up[c].written \cap fsFiles = {}

----------------------------------------------------------------------------
(* C5 *)

MissingData(files) == {i \in 1..Len(files) : Eligible(files[i]) /\ ~files[i].hasData}

FirstMissing(files) == CHOOSE i \in MissingData(files) : \A j \in MissingData(files) : i <= j

MissingDataMsg(file) == <<"File data is missing for ">> \o file.fileName

\* every eligible file failed with this message, the others skipped
BatchFailedWith(c, msg) ==
  /\ OneResultPerFile(up[c].results, up[c].files)
  /\ \A i \in ResultsFor(up[c].results, up[c].files, TRUE) :
       ~up[c].results[i].success /\ up[c].results[i].errorMessage = msg
  /\ \A i \in ResultsFor(up[c].results, up[c].files, FALSE) :
       IsSkippedSuccess(up[c].results[i])

\* the call failed its batch with an error of staging
FailedInStaging(c) ==
  \/ BatchFailedWith(c, MissingDataMsg(up[c].files[FirstMissing(up[c].files)]))
  \/ BatchFailedWith(c, FsWriteError.message)

\* C5 as stated (for a call that got as far as staging): an upload call with
\* an eligible file that has no byte content ends with a staging error,
\* without an attempt, and with none of the temp files it staged left on disk.
C5_StagingFailureLeavesNothing ==
  \A c \in Calls :
    UploadEnded(c) /\ config.defined /\ MissingData(up[c].files) # {} =>
      /\ up[c].attempts = 0 /\ att[c] = IdleAtt
      /\ FailedInStaging(c)
      /\ up[c].written \cap fsFiles = {}

\* C5: an upload call that finds the configuration and has an eligible file
\* without byte content never invokes uploadToMediaShuttle and launches no
\* browser; it returns every eligible file failed with one message, "File
\* data is missing for <the first such file>" unless writing an earlier file
\* threw first, and every temp file it staged for the earlier files has been
\* deleted except those whose deletion itself failed.
C5_StagingFailureFailsFast ==
  \A c \in Calls :
    up[c].pc # "idle" /\ config.defined /\ MissingData(up[c].files) # {} =>
      /\ up[c].pc = "returned"
      /\ up[c].attempts = 0 /\ att[c] = IdleAtt /\ liveBrowsers = {}
      /\ FailedInStaging(c)
      /\ ~BatchFailedWith(c, FsWriteError.message) =>
           up[c].tempFilePaths =
             [i \in 1..(FirstMissing(ReportFiles(up[c].files)) - 1) |->
                TempPath(ReportFiles(up[c].files)[i].fileName)]
      /\ up[c].written \cap fsFiles \subseteq up[c].warned
      /\ up[c].warned \subseteq up[c].written

\* the second eligible file has no content: the first was staged and deleted
C5_Witness ==
  \E c \in Calls :
    /\ up[c].pc = "returned"
    /\ Len(up[c].files) = 2
    /\ MissingData(up[c].files) = {2}
    /\ up[c].written = {TempPath(up[c].files[1].fileName)}
    /\ up[c].written \cap fsFiles = {}
    /\ up[c].results[2].errorMessage = MissingDataMsg(up[c].files[2])

----------------------------------------------------------------------------
(* Vocabulary of the attempt *)

\* the events of session teardown and of the return that follows it
TeardownEvents == {"cleanup", "contextClosed", "browserClosed", "closeFailed", "return"}

Positions(trace, event) == {i \in 1..Len(trace) : trace[i] = event}

\* every event of `early` precedes every event `late`
Precedes(trace, early, late) ==
  \A j \in Positions(trace, late) : \A i \in j..Len(trace) : trace[i] \notin early

AcquisitionCompleted(a) == Includes(a.trace, "goto")

LoginCompleted(a) == Includes(a.trace, "waitForNetworkIdle") /\ Includes(a.trace, "performUpload")

InteractionCompleted(a) == Includes(a.trace, "waitForUploadCompletion")

MonitoringCompleted(a) == a.completion \in {"detected", "assumed"}

----------------------------------------------------------------------------
(* C6 *)

\* C6: cleanup is invoked at most once in a call of uploadToMediaShuttle and
\* exactly once by the time the call returns, whether the pre-check, the
\* acquisition, the login, the interaction or the monitoring failed or all
\* completed; every step, the diagnostic capture and the building of the
\* result precede it, and only the closes and the return follow it.
C6_TeardownExactlyOnce ==
  \A c \in Calls :
    /\ att[c].cleanups = Cardinality(Positions(att[c].trace, "cleanup"))
    /\ att[c].cleanups <= 1
    /\ att[c].pc \in {"closeContext", "closeBrowser", "cleanupEnd", "done"} =>
         att[c].cleanups = 1
    /\ \A i \in 1..Len(att[c].trace), j \in Positions(att[c].trace, "cleanup") :
         (i < j) <=> (att[c].trace[i] \notin TeardownEvents)

\* a failed login was captured, then torn down, and the call returned
C6_Witness ==
  \E c \in Calls :
    /\ att[c].pc = "done" /\ att[c].cleanups = 1
    /\ att[c].captures = 1
    /\ ~LoginCompleted(att[c])
    /\ Includes(att[c].trace, "browserClosed")

----------------------------------------------------------------------------
(* C7 *)

\* C7: a call of uploadToMediaShuttle never gets stuck or throws: whatever
\* fails, it goes on to build exactly one result and to return once; the
\* result is success:true exactly when acquisition, login, interaction and
\* monitoring all completed, and otherwise success:false with the message of
\* the error that was caught.
C7_AttemptNeverThrows ==
  \A c \in Calls :
    /\ att[c].built <= 1 /\ att[c].returned <= 1
    /\ att[c].pc \notin {"idle", "done"} => ENABLED Step(c)
    /\ att[c].pc = "done" => att[c].built = 1 /\ att[c].returned = 1
    /\ att[c].built = 1 =>
         /\ att[c].result.success <=>
              /\ AcquisitionCompleted(att[c])
              /\ LoginCompleted(att[c])
              /\ InteractionCompleted(att[c])
              /\ MonitoringCompleted(att[c])
         /\ att[c].result.success => att[c].caught = NothingCaught /\ att[c].result.error = NoMsg
         /\ ~att[c].result.success =>
              /\ att[c].caught # NothingCaught
              /\ att[c].result.error # NoMsg
              /\ att[c].result.error = ErrorMessageOf(att[c].caught)

\* the pre-check failed: the call returned its one failed result
C7_Witness ==
  \E c \in Calls :
    /\ att[c].pc = "done" /\ att[c].built = 1
    /\ ~att[c].result.success
    /\ att[c].result.error = <<"Files not found: ">> \o MissingPath

----------------------------------------------------------------------------
(* C8 *)

\* C8 as stated: whenever an attempt has built a failed result, even for a
\* failure during session acquisition, diagnostic capture was invoked before.
C8_CaptureOnEveryFailure ==
  \A c \in Calls :
    att[c].built = 1 /\ ~att[c].result.success /\ Includes(att[c].trace, "initializeBrowser") =>
      att[c].captures >= 1

\* C8: on a failure of login, interaction or monitoring, diagnostic capture is
\* invoked exactly once, before the failed result is built and before session
\* teardown; on a failure of the pre-check or of session acquisition there is
\* no page to capture, and the failed result is built without a capture.
C8_CaptureOncePageExists ==
  \A c \in Calls :
    /\ att[c].captures = Cardinality(Positions(att[c].trace, "captureErrorScreenshot"))
    /\ att[c].built = 1 /\ ~att[c].result.success =>
         /\ att[c].captures = (IF AcquisitionCompleted(att[c]) THEN 1 ELSE 0)
         /\ Precedes(att[c].trace, {"captureErrorScreenshot"}, "result")
         /\ Precedes(att[c].trace, {"captureErrorScreenshot"}, "cleanup")
    /\ att[c].built = 1 /\ att[c].result.success => att[c].captures = 0

\* the monitor failed the attempt: captured, then the result, then teardown
C8_Witness ==
  \E c \in Calls :
    /\ att[c].built = 1 /\ ~att[c].result.success
    /\ att[c].completion = "failed"
    /\ att[c].captures = 1
    /\ att[c].cleanups = 1

----------------------------------------------------------------------------
(* C9 *)

TerminalMarkers == {"completed", "success", "finished"}

\* the status element exists and its text holds a terminal marker, in any case
ShowsTerminalMarker(status) ==
  /\ status.present
  /\ \E i \in 1..Len(status.text) : LowerToken(status.text[i]) \in TerminalMarkers

\* the error element was read and its text holds 'error', in any case
ShowsError(errorText) ==
  /\ ~errorText.isNull
  /\ \E i \in 1..Len(errorText.text) : LowerToken(errorText.text[i]) = "error"

MonitorEnded(a) == a.completion # "pending"

RaisedWithText(a) ==
  /\ a.completion = "failed"
  /\ a.caught = Err(<<"Upload failed: ", "Transfer failed: ">> \o a.errorText.text)

\* C9 as stated (leaving aside a page function that threw): completion
\* monitoring returns normally when the status text holds a terminal marker;
\* raises with the error text when the status never holds one and the error
\* element mentions 'error'; returns normally when there is neither.
C9_ThreeOutcomes ==
  \A c \in Calls :
    MonitorEnded(att[c]) /\ ~att[c].pollThrew =>
      /\ ShowsTerminalMarker(att[c].status) => MonitoringCompleted(att[c])
      /\ ~ShowsTerminalMarker(att[c].status) /\ ShowsError(att[c].errorText) =>
           RaisedWithText(att[c])
      /\ ~ShowsTerminalMarker(att[c].status) /\ ~ShowsError(att[c].errorText) =>
           MonitoringCompleted(att[c])

\* C9: completion monitoring returns normally as soon as the poll, started
\* once the progress-detail element has appeared, sees a terminal marker in
\* the status text and its page function returns; in every other case (the
\* progress-detail element never appeared, the poll timed out, or the page
\* function threw) the error element decides: if its text mentions 'error' it
\* raises an error carrying that text, otherwise it returns normally.  A
\* terminal marker in the status text alone does not make it return normally.
C9_OutcomesOfTheCode ==
  \A c \in Calls :
    /\ att[c].pc = "poll" /\ att[c].polls > 0 => ~ShowsTerminalMarker(att[c].status)
    /\ att[c].completion = "detected" =>
         /\ att[c].progress /\ ShowsTerminalMarker(att[c].status)
         /\ ~att[c].fallback /\ ~att[c].pollThrew
    /\ MonitorEnded(att[c]) /\ att[c].completion # "detected" =>
         /\ att[c].fallback
         /\ ShowsError(att[c].errorText) <=> RaisedWithText(att[c])
         /\ ~ShowsError(att[c].errorText) <=> att[c].completion = "assumed"
    /\ MonitorEnded(att[c]) /\ ~ShowsTerminalMarker(att[c].status) =>
         /\ ShowsError(att[c].errorText) => RaisedWithText(att[c])
         /\ ~ShowsError(att[c].errorText) => MonitoringCompleted(att[c])

\* the poll ran out without a marker and the error element said "Upload Error"
C9_Witness ==
  \E c \in Calls :
    /\ att[c].progress /\ att[c].polls = MaxPolls
    /\ ~ShowsTerminalMarker(att[c].status)
    /\ att[c].errorText.text = <<"Upload", "Error">>
    /\ RaisedWithText(att[c])

----------------------------------------------------------------------------
(* C10 *)

\* C10 as stated (leaving aside a page function that threw): the fallback
\* path is entered only if the progress-detail element never appeared; once
\* it has appeared, a poll that ends without a terminal marker never leads to
\* the optimistic 'assume success' outcome.
C10_FallbackOnlyWithoutProgress ==
  \A c \in Calls :
    ~att[c].pollThrew =>
      /\ att[c].fallback => ~att[c].progress
      /\ att[c].progress /\ ~ShowsTerminalMarker(att[c].status) =>
           att[c].completion # "assumed"

\* C10: the fallback path is entered exactly when the primary path raised:
\* the progress-detail element never appeared, or it appeared and the status
\* poll ended without resolving (it timed out, or its page function threw).
\* A poll that resolved never enters the fallback; a poll that ended without
\* resolving always does, and then leads to 'assume success' unless the error
\* element mentions 'error'.
C10_FallbackWheneverPrimaryRaises ==
  \A c \in Calls :
    /\ att[c].fallback /\ att[c].progress =>
         \/ att[c].polls = MaxPolls /\ ~ShowsTerminalMarker(att[c].status) /\ ~att[c].pollThrew
         \/ ShowsTerminalMarker(att[c].status) /\ att[c].pollThrew
    /\ att[c].fallback /\ ~att[c].progress => att[c].polls = 0 /\ ~att[c].pollThrew
    /\ att[c].completion = "detected" => ~att[c].fallback
    /\ att[c].completion = "assumed" => att[c].fallback
    /\ att[c].progress /\ att[c].pc # "poll" /\ att[c].completion # "detected" =>
         att[c].fallback

\* the progress-detail element appeared, the poll timed out, success was assumed
C10_Witness ==
  \E c \in Calls :
    /\ att[c].progress
    /\ att[c].polls = MaxPolls /\ ~ShowsTerminalMarker(att[c].status)
    /\ att[c].fallback
    /\ att[c].completion = "assumed"
----------------------------------------------------------------------------
(* C11 *)

\* The browser and the context an attempt opens carry the number of the
\* attempt, so a handle h belongs to attempt c exactly when h = c.

\* the attempt is between the creation of its context and its catch or return
UsesItsContext(a) == a.pc \in {"newPage", "goto", "login"}

\* C11 as stated: attempts interleaved on the one service instance share no
\* session state: the close an attempt's teardown awaits is that of a handle
\* the attempt opened itself, and while an attempt runs its steps the context
\* and the browser it opened have been closed by no one.
C11_NoSharedSessionState ==
  \A c \in Calls :
    /\ att[c].pc \in {"closeContext", "closeBrowser"} => att[c].closing = c
    /\ att[c].pc = "newContext" /\ Includes(att[c].trace, "launch") => c \in liveBrowsers
    /\ UsesItsContext(att[c]) => c \in liveContexts /\ c \in liveBrowsers

----------------------------------------------------------------------------
(* C12 *)

ReleaseReturned(a) == a.cleanups = 1 /\ a.pc \in {"cleanupEnd", "done"}

\* C12 as stated: session release closes the context and then the browser,
\* in that order; once it has returned, also when a close raised an error,
\* both handles are null and every context and browser that was opened has
\* been closed; and a release that finds no handle closes nothing.
C12_ReleaseClosesBoth ==
  \A c \in Calls :
    /\ Precedes(att[c].trace, {"contextClosed"}, "browserClosed")
    /\ ReleaseReturned(att[c]) =>
         /\ context = NULL /\ browser = NULL
         /\ liveContexts = {} /\ liveBrowsers = {}
    /\ ReleaseReturned(att[c]) /\ ~Includes(att[c].trace, "launch") =>
         ~\E e \in {"contextClosed", "browserClosed", "closeFailed"} :
            Includes(att[c].trace, e)

----------------------------------------------------------------------------
(* C13 *)

\* the events of login, from its call to its last awaited operation
LoginEvents == <<"login">> \o LoginAwaits

\* the trace holds `events` as one block that ends just before position p
BlockBefore(trace, events, p) ==
  /\ p > Len(events)
  /\ SubSeq(trace, p - Len(events), p - 1) = events

LoginStarted(a) == Includes(a.trace, "login")

InitiationStarted(a) == Includes(a.trace, "performUpload")

\* login has ended without the initiation step being started
LoginGaveUp(a) == LoginStarted(a) /\ a.pc # "login" /\ ~InitiationStarted(a)

LoginCauses == {<<"Timeout exceeded">>, <<"Login failed - still on login page">>}

\* nothing of the initiation or the monitoring step has happened
NoTransferInteraction(a) ==
  /\ a.probe = NoProbe
  /\ a.chooserFiles = <<>>
  /\ ~a.sent
  /\ ~a.progress /\ a.polls = 0 /\ ~a.fallback
  /\ a.completion = "pending"
  /\ ~Includes(a.trace, "waitForUploadCompletion")
  /\ ~Includes(a.trace, "monitorTransferProgress")

----------------------------------------------------------------------------
(* C14 *)

\* what the four steps log, in the order the code runs them
AcquisitionEvents == <<"initializeBrowser", "launch", "newContext", "newPage", "goto">>

InitiationEvents == <<"performUpload">>

MonitoringEvents == <<"waitForUploadCompletion">>

StepEvents == AcquisitionEvents \o LoginEvents \o InitiationEvents \o MonitoringEvents

StepEventSet == Range(StepEvents)

IsStepEvent(e) == e \in StepEventSet

\* every event an operation of one of the four steps logs
InStepEvents == StepEventSet \cup {"monitorTransferProgress", "fallback"}

\* what the catch block, the result and the teardown log
AfterStepEvents ==
  {"captureErrorScreenshot", "saved", "notSaved", "result"} \cup TeardownEvents

IsPrefix(s, t) == Len(s) <= Len(t) /\ s = SubSeq(t, 1, Len(s))

\* the step an attempt is suspended in: 0 when in none of the four
StepOfPc(pc) ==
  CASE pc \in {"launch", "newContext", "newPage", "goto"} -> 1
    [] pc = "login"                                        -> 2
    [] pc \in ProbePcs \cup InteractPcs                    -> 3
    [] pc \in {"waitProgress", "poll", "fallback"}         -> 4
    [] OTHER                                               -> 0

\* the step the last logged step event belongs to
StepOfLastEvent(trace) ==
  LET n == Cardinality({i \in 1..Len(trace) : IsStepEvent(trace[i])})
  IN CASE n = 0                                               -> 0
       [] n <= Len(AcquisitionEvents)                         -> 1
       [] n <= Len(AcquisitionEvents) + Len(LoginEvents)      -> 2
       [] n <= Len(AcquisitionEvents) + Len(LoginEvents) + 1  -> 3
       [] OTHER                                               -> 4

----------------------------------------------------------------------------
(* C15 *)

AllAttemptsReturned == \A c \in Calls : att[c].pc \in {"idle", "done"}

\* C15 as stated: in every reachable state, also between the awaits of
\* interleaved attempts, a non-null context handle comes with a non-null
\* browser handle; and when every attempt that was started has returned, no
\* launched browser is still open and both handles are null.
C15_HandlesConsistent ==
  /\ context # NULL => browser # NULL
  /\ AllAttemptsReturned =>
       /\ liveBrowsers = {}
       /\ browser = NULL
       /\ context = NULL

----------------------------------------------------------------------------
(* C16 *)

\* the eligible files of a call, in input order, as the staging loop sees them
EligibleOf(files) == SelectSeq(files, Eligible)

\* C16 as stated, for the eligible files of one call: once staging has gone
\* through all of them, they are staged to pairwise different temporary
\* paths, so that no staged content is overwritten by another file.
C16_StagedPathsUnique ==
  \A c \in Calls :
    LET u == up[c] IN
    u.pc \in {"awaitAttempt", "returned"} /\ Len(u.tempFilePaths) = Len(EligibleOf(u.files)) =>
      \A i, j \in 1..Len(u.tempFilePaths) :
        i # j => u.tempFilePaths[i] # u.tempFilePaths[j]

----------------------------------------------------------------------------
(* C17 *)

\* every eligible file of the call has been written and its path recorded
StagingSucceeded(u) ==
  /\ u.pc \in {"awaitAttempt", "returned"}
  /\ HasEligible(u.files)
  /\ Len(u.tempFilePaths) = Len(EligibleOf(u.files))

\* the staged path of each eligible file, in input order
StagedPathsOf(files) ==
  LET el == EligibleOf(files) IN [i \in 1..Len(el) |-> <<"tmp">> \o el[i].fileName]

\* C17: an upload call with eligible files whose staging went through all of
\* them invokes uploadToMediaShuttle exactly once, with the staged paths of
\* all eligible files, in input order, as its one argument list; the call
\* returns only after that invocation returned, and whether it succeeded or
\* failed no second invocation is made, although the registered configuration
\* says maxRetries = 3.  A call whose staging did not go through invokes it
\* not at all.
C17_OneAttemptNoRetry ==
  \A c \in Calls :
    LET u == up[c]
        a == att[c]
        staged == StagingSucceeded(u)
    IN /\ u.attempts <= 1
       /\ staged =>
            /\ u.attempts = 1
            /\ a.caller = "upload"
            /\ a.filePaths = StagedPathsOf(u.files)
            /\ Cardinality(Positions(a.trace, "existsSync")) = 1
            /\ a.returned <= 1
            /\ u.pc = "returned" => a.pc = "done" /\ a.returned = 1
       /\ u.pc # "idle" /\ ~staged =>
            u.attempts = 0 /\ a = IdleAtt

\* two eligible files went to the portal in one invocation, it failed, and
\* the call has returned with maxRetries = 3 in the configuration
C17_Witness ==
  \E c \in Calls :
    /\ up[c].pc = "returned"
    /\ Len(att[c].filePaths) = 2
    /\ ~att[c].result.success
    /\ up[c].attempts = 1
    /\ config.maxRetries = 3

----------------------------------------------------------------------------
(* C18 *)

\* the probe that guards an interaction of the initiation step
ProbeOf(pc) ==
  CASE pc = "clickNoSoftware" -> "visNoSoftware"
    [] pc = "fillRecipient"   -> "visRecipient"
    [] pc = "clickSend"       -> "visSend"
    [] OTHER                  -> "visAddFiles"

Answered(control, visible) == [control |-> control, visible |-> visible]

FilesSupplied(a) == a.chooserFiles # <<>>

\* C18: in the initiation step an interaction with a control is pending only
\* when the probe of that control has just answered visible; the file
\* chooser is given nothing or all file paths of the attempt at once; the
\* send control is probed, and clicked, only after all paths were supplied,
\* which happens only in the add-files branch; when the add-files control is
\* not visible no file is supplied, the send control is neither probed nor
\* clicked, and completion monitoring is started; and after a probe that
\* answered not visible the attempt has no error other than one raised by
\* completion monitoring.
C18_ControlsUsedOnlyIfVisible ==
  \A c \in Calls :
    LET a == att[c] IN
    /\ a.pc \in InteractPcs => a.probe = Answered(ProbeOf(a.pc), TRUE)
    /\ a.chooserFiles \in {<<>>, a.filePaths}
    /\ a.probe.control = "visSend" \/ a.pc \in {"visSend", "clickSend"} \/ a.sent =>
         FilesSupplied(a) /\ a.chooserFiles = a.filePaths
    /\ a.sent => a.probe = Answered("visSend", TRUE)
    /\ a.probe = Answered("visAddFiles", FALSE) =>
         /\ ~FilesSupplied(a)
         /\ ~a.sent
         /\ Includes(a.trace, "waitForUploadCompletion")
    /\ a.probe.control # "none" /\ ~a.probe.visible /\ a.caught.isError =>
         a.completion = "failed"

\* the add-files control was not visible: no file was supplied, monitoring
\* ran, and the attempt has returned success
C18_Witness ==
  \E c \in Calls :
    /\ att[c].pc = "done"
    /\ att[c].probe = Answered("visAddFiles", FALSE)
    /\ att[c].chooserFiles = <<>>
    /\ att[c].result.success

----------------------------------------------------------------------------
(* C19 *)

NotEligible(file) == ~Eligible(file)

\* the list upload reports for these files when the eligible ones share the
\* outcome (ok, msg): eligible files first, then the skipped ones
ReportedFor(files, ok, msg) ==
  LET el == SelectSeq(files, Eligible)
      sk == SelectSeq(files, NotEligible)
  IN [i \in 1..Len(el) |->
        [ fileName     |-> el[i].fileName,
          success      |-> ok,
          skipped      |-> FALSE,
          errorMessage |-> IF ok THEN NoMsg ELSE msg ]]
     \o
     [i \in 1..Len(sk) |->
        [ fileName |-> sk[i].fileName, success |-> TRUE,
          skipped  |-> TRUE, errorMessage |-> NoMsg ]]

StagingCauses(files) ==
  {<<"ENOSPC: no space left on device">>}
    \cup {<<"File data is missing for ">> \o files[i].fileName : i \in 1..Len(files)}

CleanupPcs == {"closeContext", "closeBrowser", "cleanupEnd"}

\* what one step of call c may do to the reported results
ResultKeptByCleanup(c) ==
  LET a == att[c]
      u == up[c]
  IN \* an error that was caught is never replaced
     /\ a.caught.isError => att'[c].caught = a.caught
     \* the capture settles, saved or not: the result carries the caught error
     /\ a.pc = "capture" /\ att'[c] # a =>
          /\ att'[c].built = 1
          /\ ~att'[c].result.success
          /\ att'[c].result.error = a.caught.message
          /\ att'[c].result.uploadedFiles = <<>>
     \* a close settles, resolved or rejected: the result is what it was
     /\ a.pc \in CleanupPcs => att'[c].result = a.result /\ att'[c].built = a.built
     \* upload returns after the attempt: the list is that of the attempt's
     \* result, whichever unlinks failed, and every staged path is deleted
     \* unless its own unlink failed
     /\ u.pc = "awaitAttempt" /\ up'[c].pc = "returned" =>
          /\ up'[c].results = ReportedFor(u.files, a.result.success, a.result.error)
          /\ \A p \in u.written : p \in fsFiles' => p \in up'[c].warned
     \* upload returns after a staging failure: the list carries the staging
     \* error, whichever unlinks failed
     /\ u.pc = "idle" /\ up'[c].pc = "returned" /\ HasEligible(up'[c].files) =>
          /\ \E msg \in StagingCauses(up'[c].files) :
               up'[c].results = ReportedFor(up'[c].files, FALSE, msg)
          /\ \A p \in up'[c].written : p \in fsFiles' => p \in up'[c].warned

\* C19: the reported result does not depend on the capture, a temp-file
\* deletion or a close succeeding: every step keeps a caught error as it is;
\* when the capture settles, saved or not, the failed result carries the
\* message of the error caught before it; no close, resolved or rejected,
\* changes the result; the list upload returns is determined by its files and
\* by the attempt's result (or the staging error) alone, whichever unlinks
\* failed; and every staged path whose own unlink did not fail is deleted.
C19_ResultIndependentOfCleanup == [][\A c \in Calls : ResultKeptByCleanup(c)]_vars

\* the capture failed, a close failed and an unlink failed, and upload has
\* returned the attempt's error for its eligible file
C19_Witness ==
  \E c \in Calls :
    /\ up[c].pc = "returned"
    /\ Includes(att[c].trace, "notSaved")
    /\ Includes(att[c].trace, "closeFailed")
    /\ up[c].warned # {}
    /\ \E i \in 1..Len(up[c].results) :
         up[c].results[i].errorMessage = att[c].caught.message /\ att[c].caught.isError

----------------------------------------------------------------------------
(* C20 *)

\* uploadToMediaShuttle was called with at least one path that did not exist
PreCheckFailed(a) ==
  /\ a.caller \in {"upload", "direct"}
  /\ a.pc # "idle"
  /\ \E i \in 1..Len(a.filePaths) : a.filePaths[i] = MissingPath

NothingToClose(a) ==
  /\ a.pc \notin {"closeContext", "closeBrowser"}
  /\ ~\E e \in {"contextClosed", "browserClosed", "closeFailed"} : Includes(a.trace, e)

\* C20 as stated: uploadToMediaShuttle launches a browser only if every given
\* path exists when it is called; with a missing path it launches nothing,
\* does not log in and captures nothing, its result is success:false with an
\* error that starts with 'Files not found', and its teardown runs once and
\* closes nothing.
C20_MissingPathTouchesNoBrowser ==
  \A c \in Calls :
    LET a == att[c] IN
    /\ a.caller \in {"upload", "direct"} /\ Includes(a.trace, "initializeBrowser") =>
         ~PreCheckFailed(a)
    /\ PreCheckFailed(a) =>
         /\ ~Includes(a.trace, "initializeBrowser") /\ ~Includes(a.trace, "launch")
         /\ ~Includes(a.trace, "login")
         /\ a.captures = 0
         /\ a.built = 1
         /\ ~a.result.success
         /\ Len(a.result.error) > 0 /\ Head(a.result.error) = "Files not found: "
         /\ a.cleanups = 1
         /\ NothingToClose(a)

====
